---- MODULE Spec2Model ----
(***************************************************************************)
(* A model of the Space Invaders board emulation in src/src/main.rs: the   *)
(* shift register chip, the mirrored memory image with its display buffer, *)
(* the emulation thread (port dispatch, interrupt schedule, frame mirror,   *)
(* run flag) running beside the presentation thread (input latches), and   *)
(* the loading of the program image in main.                               *)
(***************************************************************************)
EXTENDS Integers, Sequences, FiniteSets, TLC

VARIABLES
    register,       \* ShiftRegister.register : u16
    amount,         \* ShiftRegister.amount : u8
    sr_out,         \* the byte the last ShiftRegister::output() returned, -1 before any
    sr_ops,         \* the input_data / input_amount calls made since ShiftRegister::new()
    rom_image,      \* the image passed to SpaceInvadersMemory::new (which of Images)
    memory,         \* SpaceInvadersMemory: [rom, ram, vram], each array held as the
                    \* cells stored to since construction (the others keep their
                    \* constructed value: the image for rom, 0 for ram and vram)
    mem_fault,      \* TRUE once a slice index of a memory operation panicked
    bulk_expect,    \* set by a write_bytes(addr, val) with read_bytes after it: the
                    \* call, read: what read_bytes returned, and mem: the memory
                    \* that write_byte(addr + k, val[k]) for each k in order would
                    \* have left; cleared by any other memory operation
    byte_probe,     \* set by a write_byte(addr, val) with read_byte(addr) after it:
                    \* the call, read: what read_byte returned, and before: the
                    \* memory as it was before the call; cleared by any other
                    \* memory operation
    running,        \* SpaceInvaders.running : AtomicBool
    emulator_thread,\* SpaceInvaders.emulator_thread: "none", "spawned", "taken"
    window,         \* SpaceInvaders.window.is_some()
    ui_pc,          \* where the presentation thread is: "events" (between events),
                    \* "redraw" (in RedrawRequested, holding the mirror lock),
                    \* "redraw_high" (half of the mirror copied), "key" (in a key
                    \* arm, between its load and its store),
                    \* "joining" (in CloseRequested, inside thread.join()), "exited"
    emu_pc,         \* where the emulation thread is: "idle" (not spawned), "start",
                    \* "loop" (at the while test), "step" (at the top of the for body),
                    \* "publish" (holding the mirror lock), "publish_high" (half
                    \* of the display buffer copied), "sleep", "done"
    batch_i,        \* the for loop's index, 0..5
    emu_clock,      \* emulator_loop's emu_clock (ns)
    next_display_time,      \* emulator_loop's next_display_time (ns)
    next_screen_int_time,   \* emulator_loop's next_screen_int_time (ns)
    interrupts,     \* the instructions passed to cpu.interrupt, in order
    mirror_lock,    \* who holds the vram_mirror mutex: "free", "emu", "ui"
    vram_mirror,    \* the buffer inside the mutex, held like memory.vram
    frame,          \* rendered_pixels.frame_mut(), held like memory.vram
    published,      \* last: memory.vram as it was at the last copy into the mirror
                    \* (all zero before any); redrawn: what last was when the
                    \* presentation thread began its last copy of the mirror
    redraw_requested,   \* window.request_redraw() called and not yet served
    max_step,       \* the largest emu_time_nano_sec a CPU step has had so far
    close_steps,    \* CPU steps executed since CloseRequested stored false
    audio_backend,  \* what awedio::start() returned: "unknown" before the call,
                    \* "ok", "failed"
    inputs,         \* SpaceInvaders.inputs: inputs[0], inputs[1], inputs[2] : AtomicU8
    last_audio1,    \* emulator_loop's last_audio1, as its byte
    last_audio2,    \* emulator_loop's last_audio2, as its byte
    ufo_paused,     \* whether ufo_sound_controller holds the ufo loop paused
    last_io,        \* what the last port dispatch served: the request (kind, port,
                    \* val), prev: the byte written to that port the time before
                    \* (-1 if never), events: the calls it made on the audio player,
                    \* input: the byte handed to cpu.write_input (-1 if none)
    port_written,   \* per sound port, the last byte the CPU wrote to it (-1 if never)
    key_down,       \* per key, whether the last KeyboardInput event for it was Pressed
    key_local,      \* a key arm between its load and its store: the event and the
                    \* local val it loaded
    main_pc,        \* where main is: "load" (before load_rom), "failed" (returned
                    \* Err), "built" (SpaceInvadersMemory::new done, event loop runs)
    file_len,       \* the length of src/assets/invaders.bin, -1 if it cannot be opened
    rom_len         \* how many bytes file.read put at the head of load_rom's buffer

shiftVars == <<register, amount, sr_out, sr_ops>>

memVars == <<rom_image, memory, mem_fault, bulk_expect, byte_probe>>

schedVars == <<emu_clock, next_display_time, next_screen_int_time, interrupts, max_step>>

threadVars == <<running, emulator_thread, window, ui_pc, emu_pc, batch_i, close_steps>>

bridgeVars == <<mirror_lock, vram_mirror, frame, redraw_requested, published>>

emuVars == <<schedVars, threadVars, bridgeVars>>

ioVars == <<inputs, last_audio1, last_audio2, ufo_paused, last_io, port_written,
           key_down, key_local>>

loadVars == <<main_pc, file_len, rom_len>>

vars == <<shiftVars, memVars, emuVars, audio_backend, ioVars, loadVars>>

-----------------------------------------------------------------------------
(* Machine arithmetic on unsigned integers of a fixed width.               *)

Pow2(n) == 2 ^ n

\* x | y on the low n bits, bit by bit
RECURSIVE BitOr(_, _, _)
BitOr(x, y, n) ==
    IF n = 0 THEN 0
    ELSE (IF x % 2 = 1 \/ y % 2 = 1 THEN 1 ELSE 0) + 2 * BitOr(x \div 2, y \div 2, n - 1)

\* x & y on the low n bits, bit by bit
RECURSIVE BitAnd(_, _, _)
BitAnd(x, y, n) ==
    IF n = 0 THEN 0
    ELSE (IF x % 2 = 1 /\ y % 2 = 1 THEN 1 ELSE 0) + 2 * BitAnd(x \div 2, y \div 2, n - 1)

\* (x << n) on a u16: the bits shifted past bit 15 are lost
Shl16(x, n) == (x * Pow2(n)) % 65536

\* x >> n
Shr(x, n) == x \div Pow2(n)

\* x as u8
AsU8(x) == x % 256

\* bit i of x
BitOf(x, i) == (x \div Pow2(i)) % 2

-----------------------------------------------------------------------------
(* ShiftRegister (main.rs 279-303)                                         *)

\* the bytes and shift amounts the CPU writes to the chip in this model
ShiftBytes == {0, 18, 129, 170, 255}          \* 0x00 0x12 0x81 0xAA 0xFF
ShiftAmounts == {0, 2, 7, 10, 255}            \* 10 and 255 carry bits above the low three

\* how many input_data / input_amount calls a run makes
MaxShiftOps == 4

\* ShiftRegister::input_data with the high byte dropped instead of moved down
input_data_keep_low(reg, input) == BitOr(Shl16(input, 8), reg % 256, 16)

\* ShiftRegister::input_data: the new value of self.register
input_data(reg, input) == BitOr(Shl16(input, 8), Shr(reg, 8), 16)

\* ShiftRegister::input_amount without the mask
input_amount_unmasked(n) == n

\* ShiftRegister::input_amount: the new value of self.amount
input_amount(n) == BitAnd(n, 7, 8)

\* ShiftRegister::output shifting by amount instead of 8 - amount
output_shift_amount(reg, amt) == AsU8(Shr(reg, amt))

\* ShiftRegister::output
output(reg, amt) == AsU8(Shr(reg, 8 - amt))

InputData(b) ==
    /\ Len(sr_ops) < MaxShiftOps
    /\ register' = input_data(register, b)
    /\ sr_ops' = Append(sr_ops, <<"data", b>>)
    /\ sr_out' = -1
    /\ UNCHANGED amount
    /\ UNCHANGED <<memVars, emuVars, audio_backend, ioVars, loadVars>>

InputAmount(n) ==
    /\ Len(sr_ops) < MaxShiftOps
    /\ amount' = input_amount(n)
    /\ sr_ops' = Append(sr_ops, <<"amount", n>>)
    /\ sr_out' = -1
    /\ UNCHANGED register
    /\ UNCHANGED <<memVars, emuVars, audio_backend, ioVars, loadVars>>

Output ==
    /\ sr_out = -1
    /\ sr_out' = output(register, amount)
    /\ UNCHANGED <<register, amount, sr_ops>>
    /\ UNCHANGED <<memVars, emuVars, audio_backend, ioVars, loadVars>>

InitShift ==
    /\ register = 0
    /\ amount = 0
    /\ sr_out = -1
    /\ sr_ops = <<>>

-----------------------------------------------------------------------------
(* SpaceInvadersMemory (main.rs 33-197)                                    *)

SCREEN_WIDTH_PIXELS == 256
SCREEN_HEIGHT_PIXELS == 224
DISPLAY_WIDTH_PIXELS == SCREEN_HEIGHT_PIXELS
DISPLAY_HEIGHT_PIXELS == SCREEN_WIDTH_PIXELS
SCREEN_SIZE_PIXELS == SCREEN_WIDTH_PIXELS * SCREEN_HEIGHT_PIXELS
DISPLAY_BUFFER_SIZE == SCREEN_SIZE_PIXELS * 4

ROM_SIZE == 8192
RAM_SIZE == 1024
VRAM_SIZE == 7168

ROM_START == 0
RAM_START == 8192
VRAM_START == 9216

ROM_END == ROM_START + ROM_SIZE
RAM_END == RAM_START + RAM_SIZE
VRAM_END == VRAM_START + VRAM_SIZE

RAM_MASK == 16383

DISPLAY_PIXEL_SIZE == 4
WHITE_PIXEL == <<255, 255, 255, 255>>
BLACK_PIXEL == <<0, 0, 0, 255>>

\* the program images a run may be constructed with (an image is named by a
\* number; ImageByte gives its bytes)
Images == {1}

\* byte a of program image img
ImageByte(img, a) == (a * 31 + img * 85) % 256

\* the addresses and bytes the CPU engine hands to the memory in this model:
\* the first and last cell of each region, and mirrors of them in the upper
\* three 16 KB windows
MemAddrs == {0, 8191, 8192, 9215, 9216, 16383,
             16384, 24576, 40959, 58368, 65535}
\* the 16 KB window the address lines decode
WindowSize == RAM_MASK + 1
MemBytes == {0, 165}
MemSlices == {<<165>>, <<0, 90>>}

\* where bulk writes start: the first cells of the Working region, its last two
\* cells, the first cells of the Video region, and a mirror of each start
BulkAddrs == {RAM_START, RAM_END - 2, VRAM_START, RAM_START + WindowSize,
              VRAM_START + 3 * WindowSize}

\* video cells and single-bit bytes for the display conversion: the first cell,
\* the cell at the top of the first display column, the first cell of the
\* second column, and the last cell
VideoAddrs == {VRAM_START, VRAM_START + 31, VRAM_START + 32, VRAM_END - 1}
VideoBytes == {0, 1, 16, 128}

\* where single bytes are written and read back: a Program cell, a Working
\* cell, the first two Video cells (one display column), and a mirror of the
\* last Video cell
ByteAddrs == {ROM_START, RAM_START, VRAM_START, VRAM_START + 1,
              VRAM_END - 1 + WindowSize}
ByteVals == {0, 165}

\* self.rom[a], self.ram[i], self.vram[b]
RomAt(m, a) ==
    IF a \in DOMAIN m.rom THEN m.rom[a]
    ELSE IF a < rom_len THEN ImageByte(rom_image, a)
    ELSE 0
RamAt(m, i) == IF i \in DOMAIN m.ram THEN m.ram[i] ELSE 0
VramAt(m, b) == IF b \in DOMAIN m.vram THEN m.vram[b] ELSE 0

\* array[start..start+Len(val)].copy_from_slice(val) on an array held as its stored cells
CopyFromSlice(cells, start, val) ==
    [a \in DOMAIN cells \cup {start + k - 1 : k \in 1..Len(val)} |->
        IF a >= start /\ a < start + Len(val) THEN val[a - start + 1] ELSE cells[a]]

\* addr as usize & RAM_MASK, with one address bit too many decoded
MaskAddr15(addr) == BitAnd(addr, 32767, 16)

\* addr as usize & RAM_MASK
MaskAddr(addr) == BitAnd(addr, RAM_MASK, 16)

\* the pixel index computed with the screen's width as the display's row length
get_display_pixel_address_wide(address, pixel) ==
    LET pixel_address == (address * 8) + pixel
        display_col == pixel_address \div SCREEN_WIDTH_PIXELS
        display_row == SCREEN_WIDTH_PIXELS - 1 - (pixel_address % SCREEN_WIDTH_PIXELS)
    IN (display_row * SCREEN_WIDTH_PIXELS) + display_col

\* SpaceInvadersMemory::get_display_pixel_address
get_display_pixel_address(address, pixel) ==
    LET pixel_address == (address * 8) + pixel
        display_col == pixel_address \div SCREEN_WIDTH_PIXELS
        display_row == SCREEN_WIDTH_PIXELS - 1 - (pixel_address % SCREEN_WIDTH_PIXELS)
    IN (display_row * DISPLAY_WIDTH_PIXELS) + display_col

\* the byte address of pixel i without the rotation: pixels in video order
write_vram_byte_address_unrotated(address, i) ==
    ((8 * address) + i) * DISPLAY_PIXEL_SIZE

\* the byte address of pixel i of the video byte at address, as write_vram walks it
write_vram_byte_address(address, i) ==
    LET starting_pixel_address == 8 * address
        starting_pixel_display_col == starting_pixel_address \div SCREEN_WIDTH_PIXELS
        starting_pixel_display_row ==
            SCREEN_WIDTH_PIXELS - 1 - (starting_pixel_address % SCREEN_WIDTH_PIXELS)
        pixel_display_row == starting_pixel_display_row - i
        pixel_display_address ==
            pixel_display_row * DISPLAY_WIDTH_PIXELS + starting_pixel_display_col
    IN pixel_display_address * DISPLAY_PIXEL_SIZE

\* whether every slice write_vram(address, _) takes lies inside self.vram
write_vram_in_bounds(address) ==
    \A i \in 0..7 :
        /\ SCREEN_WIDTH_PIXELS - 1 - ((8 * address) % SCREEN_WIDTH_PIXELS) - i >= 0
        /\ write_vram_byte_address(address, i) + 4 <= DISPLAY_BUFFER_SIZE

\* SpaceInvadersMemory::write_vram: the new self.vram
RECURSIVE write_vram_from(_, _, _, _)
write_vram_from(cells, address, val, i) ==
    IF i = 8 THEN cells
    ELSE LET byte_address == write_vram_byte_address(address, i)
             mask == Pow2(i) % 256
             pixel == IF BitAnd(mask, val, 8) # 0 THEN WHITE_PIXEL ELSE BLACK_PIXEL
         IN write_vram_from(CopyFromSlice(cells, byte_address, pixel), address, val, i + 1)

write_vram(cells, address, val) == write_vram_from(cells, address, val, 0)

\* SpaceInvadersMemory::read_vram: the loop from bit i on, byte being the bits so far
RECURSIVE read_vram_from(_, _, _, _)
read_vram_from(m, address, i, byte) ==
    IF i = 8 THEN byte
    ELSE LET byte_address == get_display_pixel_address(address, i) * 4
             pixel == VramAt(m, byte_address)
             next == IF pixel # 0 THEN BitOr(byte, Pow2(i) % 256, 8) ELSE byte
         IN read_vram_from(m, address, i + 1, next)

\* read_vram testing the last byte of each pixel (its alpha) in place of the first
read_vram_alpha(m, address) ==
    LET bit(i) == IF VramAt(m, get_display_pixel_address(address, i) * 4 + 3) # 0
                  THEN Pow2(i) ELSE 0
    IN bit(0) + bit(1) + bit(2) + bit(3) + bit(4) + bit(5) + bit(6) + bit(7)

\* SpaceInvadersMemory::read_vram
read_vram(m, address) == read_vram_from(m, address, 0, 0)

\* MemoryAccess::read_byte
read_byte(m, addr16) ==
    LET addr == MaskAddr(addr16)
    IN IF addr < ROM_END THEN RomAt(m, addr)
       ELSE IF addr < RAM_END THEN RamAt(m, addr - RAM_START)
       ELSE IF addr < VRAM_END THEN read_vram(m, addr - VRAM_START)
       ELSE 0

\* MemoryAccess::write_byte without the region test that keeps the program store out
write_byte_any_region(m, addr16, val) ==
    LET addr == MaskAddr(addr16)
    IN IF addr < ROM_END
       THEN [m EXCEPT !.rom = CopyFromSlice(m.rom, addr, <<val>>)]
       ELSE IF addr < RAM_END
       THEN [m EXCEPT !.ram = CopyFromSlice(m.ram, addr - RAM_START, <<val>>)]
       ELSE [m EXCEPT !.vram = write_vram(m.vram, addr - VRAM_START, val)]

\* MemoryAccess::write_byte: the new memory
write_byte(m, addr16, val) ==
    LET addr == MaskAddr(addr16)
    IN IF RAM_START <= addr /\ addr < RAM_END
       THEN [m EXCEPT !.ram = CopyFromSlice(m.ram, addr - RAM_START, <<val>>)]
       ELSE IF VRAM_START <= addr /\ addr < VRAM_END
       THEN [m EXCEPT !.vram = write_vram(m.vram, addr - VRAM_START, val)]
       ELSE m

\* the for loop of write_bytes' video branch: write_vram(addr + i, val[i])
RECURSIVE write_bytes_vram(_, _, _, _)
write_bytes_vram(cells, addr, val, i) ==
    IF i = Len(val) THEN cells
    ELSE write_bytes_vram(write_vram(cells, addr + i, val[i + 1]), addr, val, i + 1)

\* MemoryAccess::write_bytes: [mem |-> the new memory, fault |-> a slice index panicked]
write_bytes(m, addr16, val) ==
    LET addr == MaskAddr(addr16)
    IN IF addr < ROM_END
       THEN IF addr + Len(val) > ROM_SIZE
            THEN [mem |-> m, fault |-> TRUE]
            ELSE [mem |-> [m EXCEPT !.rom = CopyFromSlice(m.rom, addr, val)],
                  fault |-> FALSE]
       ELSE IF RAM_START <= addr /\ addr < RAM_END
       THEN IF (addr - RAM_START) + Len(val) > RAM_SIZE
            THEN [mem |-> m, fault |-> TRUE]
            ELSE [mem |-> [m EXCEPT !.ram = CopyFromSlice(m.ram, addr - RAM_START, val)],
                  fault |-> FALSE]
       ELSE IF VRAM_START <= addr /\ VRAM_END <= addr
       THEN IF \E i \in 0..(Len(val) - 1) : ~write_vram_in_bounds(addr + i)
            THEN [mem |-> m, fault |-> TRUE]
            ELSE [mem |-> [m EXCEPT !.vram = write_bytes_vram(m.vram, addr, val, 0)],
                  fault |-> FALSE]
       ELSE [mem |-> m, fault |-> FALSE]

\* whether read_vram(address) indexes inside self.vram
read_vram_in_bounds(address) ==
    \A i \in 0..7 : get_display_pixel_address(address, i) * 4 < DISPLAY_BUFFER_SIZE

\* MemoryAccess::read_bytes::<C>: [val |-> the array returned, fault |-> a slice
\* or an index was out of range]
read_bytes(m, addr16, C) ==
    LET addr == MaskAddr(addr16)
    IN IF addr < ROM_END
       THEN IF addr + C > ROM_SIZE
            THEN [val |-> <<>>, fault |-> TRUE]
            ELSE [val |-> [k \in 1..C |-> RomAt(m, addr + k - 1)], fault |-> FALSE]
       ELSE IF RAM_START <= addr /\ addr < RAM_END
       THEN IF (addr - RAM_START) + C > RAM_SIZE
            THEN [val |-> <<>>, fault |-> TRUE]
            ELSE [val |-> [k \in 1..C |-> RamAt(m, addr - RAM_START + k - 1)],
                  fault |-> FALSE]
       ELSE LET start == addr - VRAM_START
            IN IF \E i \in 0..(C - 1) : ~read_vram_in_bounds(start + i)
               THEN [val |-> <<>>, fault |-> TRUE]
               ELSE [val |-> [k \in 1..C |-> read_vram(m, start + k - 1)],
                     fault |-> FALSE]

\* write_byte(addr16 + k, val[k]) for each k from i on, in order
RECURSIVE write_byte_each(_, _, _, _)
write_byte_each(m, addr16, val, i) ==
    IF i = Len(val) THEN m
    ELSE write_byte_each(write_byte(m, (addr16 + i) % 65536, val[i + 1]), addr16, val, i + 1)

\* whether the cells addr16 .. addr16 + n - 1 all lie in the Working region or
\* all lie in the Video region
InOneRegion(addr16, n) ==
    LET addr == MaskAddr(addr16)
    IN \/ RAM_START <= addr /\ addr + n <= RAM_END
       \/ VRAM_START <= addr /\ addr + n <= VRAM_END

NoBulk == [set |-> FALSE, addr |-> 0, val |-> <<>>, read |-> <<>>,
           mem |-> [rom |-> <<>>, ram |-> <<>>, vram |-> <<>>]]

NoProbe == [set |-> FALSE, addr |-> 0, val |-> 0, read |-> 0,
            before |-> [rom |-> <<>>, ram |-> <<>>, vram |-> <<>>]]

\* SpaceInvadersMemory::new
InitMemory ==
    /\ rom_image \in Images
    /\ memory = [rom |-> <<>>, ram |-> <<>>, vram |-> <<>>]
    /\ mem_fault = FALSE
    /\ bulk_expect = NoBulk
    /\ byte_probe = NoProbe

WriteByte(addr, val) ==
    /\ main_pc = "built"
    /\ ~mem_fault
    /\ memory' = write_byte(memory, addr, val)
    /\ bulk_expect' = NoBulk
    /\ byte_probe' = NoProbe
    /\ UNCHANGED <<rom_image, mem_fault>>
    /\ UNCHANGED <<shiftVars, emuVars, audio_backend, ioVars, loadVars>>

\* write_byte(addr, val) followed by read_byte(addr)
WriteByteReadBack(addr, val) ==
    /\ main_pc = "built"
    /\ ~mem_fault
    /\ LET m == write_byte(memory, addr, val)
       IN /\ memory' = m
          /\ byte_probe' = [set |-> TRUE, addr |-> addr, val |-> val,
                            read |-> read_byte(m, addr), before |-> memory]
    /\ bulk_expect' = NoBulk
    /\ UNCHANGED <<rom_image, mem_fault>>
    /\ UNCHANGED <<shiftVars, emuVars, audio_backend, ioVars, loadVars>>

WriteBytes(addr, val) ==
    /\ main_pc = "built"
    /\ ~mem_fault
    /\ LET r == write_bytes(memory, addr, val)
       IN /\ memory' = r.mem
          /\ mem_fault' = r.fault
    /\ bulk_expect' = NoBulk
    /\ byte_probe' = NoProbe
    /\ UNCHANGED rom_image
    /\ UNCHANGED <<shiftVars, emuVars, audio_backend, ioVars, loadVars>>

\* write_bytes(addr, val) followed by read_bytes::<val.len()>(addr), for a
\* call that stays inside the Working or the Video region
WriteBytesReadBack(addr, val) ==
    /\ main_pc = "built"
    /\ ~mem_fault
    /\ InOneRegion(addr, Len(val))
    /\ LET r == write_bytes(memory, addr, val)
           back == read_bytes(r.mem, addr, Len(val))
       IN /\ memory' = r.mem
          /\ mem_fault' = (r.fault \/ back.fault)
          /\ bulk_expect' = [set |-> TRUE, addr |-> addr, val |-> val,
                             read |-> back.val,
                             mem |-> write_byte_each(memory, addr, val, 0)]
    /\ byte_probe' = NoProbe
    /\ UNCHANGED rom_image
    /\ UNCHANGED <<shiftVars, emuVars, audio_backend, ioVars, loadVars>>

\* what File::open and file.read may do for a file of file_len bytes (-1: it
\* cannot be opened): read returns Ok(n) for some n up to the bytes the file has
\* and the buffer takes, or Err
ReadCounts == {0, 1, ROM_SIZE - 1, ROM_SIZE}
ReadOutcomes(len) ==
    IF len = -1 THEN {[err |-> "open", n |-> 0]}
    ELSE {[err |-> "read", n |-> 0]}
         \cup {[err |-> "none", n |-> k] : k \in {c \in ReadCounts : c <= len}}

\* load_rom (main.rs 305-317): Err from open or read is returned; Ok(_) of read
\* is accepted whatever the count, and the buffer goes back as it is
load_rom(outcome) ==
    IF outcome.err # "none"
    THEN [ok |-> FALSE, read |-> 0]
    ELSE [ok |-> TRUE, read |-> outcome.n]

\* main (main.rs 826-836): load_rom, then SpaceInvadersMemory::new and
\* SpaceInvaders::new, or return the error
LoadRom(outcome) ==
    /\ main_pc = "load"
    /\ outcome \in ReadOutcomes(file_len)
    /\ LET r == load_rom(outcome)
       IN /\ main_pc' = IF r.ok THEN "built" ELSE "failed"
          /\ rom_len' = r.read
    /\ UNCHANGED file_len
    /\ UNCHANGED <<shiftVars, memVars, emuVars, audio_backend, ioVars>>

\* main after a load that filled the whole buffer
InitLoaded ==
    /\ main_pc = "built"
    /\ file_len = ROM_SIZE
    /\ rom_len = ROM_SIZE

\* main before load_rom, for an image file of any length
FileLens == {-1, 0, 1, ROM_SIZE - 1, ROM_SIZE, ROM_SIZE + 1}
InitLoad ==
    /\ main_pc = "load"
    /\ file_len \in FileLens
    /\ rom_len = 0

-----------------------------------------------------------------------------
(* emulator_loop (main.rs 319-506): the emulation thread                   *)

\* a 50 Hz frame period in place of the 60 Hz one
DISPLAY_TIME_50_HZ == 1000000000 \div 50

DISPLAY_TIME_NANO_SEC == 16666667

\* the value next_screen_int_time starts with
FIRST_SCREEN_INT_TIME == 7142857

\* the for loop's bound: CPU steps per batch
BATCH_STEPS == 5

\* how many frame periods of emulated time a run covers before the model stops
\* starting new batches: over a second for the interrupt schedule alone, a few
\* frames when the presentation thread runs beside it
TimingFrames == 61
ThreadFrames == 2

\* cpu_cycles * CYCLE_TIME_NANO_SECS of one cpu.step, in ns: the engine decides
\* it. Over the long run every step is shorter than the smallest gap between
\* two schedule marks; beside the presentation thread a step may also be 20 ms,
\* longer than any gap
TimingNanos == {3000000, 7000000}
EmuNanos == {6000000, 20000000}

\* what cpu.step(memory) stores through write_byte in one step: nothing, or one
\* video byte
StepWrites == {<<>>, <<9216, 165>>, <<16383, 0>>}

\* what the CPU engine asks of the ports after a step: nothing, an output byte
\* ready for a port, or an input awaited from a port
NoIO == [kind |-> "none", port |-> 0, val |-> 0]
ShiftIO ==
    {[kind |-> "out", port |-> 2, val |-> n] : n \in ShiftAmounts}
    \cup {[kind |-> "out", port |-> 4, val |-> b] : b \in ShiftBytes}
    \cup {[kind |-> "in", port |-> 3, val |-> 0]}

\* bytes for the sound ports: no flag, single flags (bits 0, 1, 4), and the low
\* five bits together
SoundBytes == {0, 1, 2, 16, 31}
SoundIO ==
    {[kind |-> "out", port |-> p, val |-> v] : p \in {3, 5}, v \in SoundBytes}
    \cup {[kind |-> "out", port |-> 6, val |-> 1]}

\* input requests: the three latches, the shift register, and two ports the match
\* does not name; beside them the outputs that change what port 3 reads
InputIO ==
    {[kind |-> "in", port |-> p, val |-> 0] : p \in {0, 1, 2, 3, 4, 255}}
    \cup {[kind |-> "out", port |-> 2, val |-> 2], [kind |-> "out", port |-> 4, val |-> 18],
          [kind |-> "out", port |-> 4, val |-> 255]}

\* the keys pressed and released beside the input requests
PortKeys == {"ArrowRight", "c", "w"}

\* the requests beside key arms taken in two steps: the two player latches read,
\* or no request
LatchIO ==
    {[kind |-> "in", port |-> p, val |-> 0] : p \in {1, 2}} \cup {NoIO}

\* step lengths for the interrupt schedule below one frame period: below the
\* smallest gap between two marks, between that gap and half a frame period,
\* and above half a frame period; and the frame periods such a run covers
SchedNanos == {3000000, 8000000, 16000000}
SchedFrames == 3

\* the step length of the runs that exercise the ports: one batch of five steps
\* covers the horizon
PortNanos == 20000000

\* u64::wrapping_add; the clocks of a run stay far below 2^64, where it is a sum
wrapping_add(a, b) == a + b

\* the schedule test with the second test not chained to the first by else
ScheduleIndependent(clock, display_time, screen_int_time) ==
    [display_time |-> IF display_time <= clock
                      THEN wrapping_add(display_time, DISPLAY_TIME_NANO_SEC)
                      ELSE display_time,
     screen_int_time |-> IF screen_int_time <= clock
                         THEN wrapping_add(screen_int_time, DISPLAY_TIME_NANO_SEC)
                         ELSE screen_int_time,
     raised |-> (IF display_time <= clock THEN <<"RST_3">> ELSE <<>>)
                \o (IF screen_int_time <= clock THEN <<"RST_2">> ELSE <<>>),
     publish |-> display_time <= clock]

\* the schedule test with the mid-frame mark tested first
ScheduleMidFirst(clock, display_time, screen_int_time) ==
    IF screen_int_time <= clock
    THEN [display_time |-> display_time,
          screen_int_time |-> wrapping_add(screen_int_time, DISPLAY_TIME_NANO_SEC),
          raised |-> <<"RST_2">>,
          publish |-> FALSE]
    ELSE IF display_time <= clock
    THEN [display_time |-> wrapping_add(display_time, DISPLAY_TIME_NANO_SEC),
          screen_int_time |-> screen_int_time,
          raised |-> <<"RST_3">>,
          publish |-> TRUE]
    ELSE [display_time |-> display_time,
          screen_int_time |-> screen_int_time,
          raised |-> <<>>,
          publish |-> FALSE]

\* the schedule test of one step (main.rs 479-490): the marks after it, the
\* interrupts raised on the CPU, and whether the frame is to be published
Schedule(clock, display_time, screen_int_time) ==
    IF display_time <= clock
    THEN [display_time |-> wrapping_add(display_time, DISPLAY_TIME_NANO_SEC),
          screen_int_time |-> screen_int_time,
          raised |-> <<"RST_3">>,
          publish |-> TRUE]
    ELSE IF screen_int_time <= clock
    THEN [display_time |-> display_time,
          screen_int_time |-> wrapping_add(screen_int_time, DISPLAY_TIME_NANO_SEC),
          raised |-> <<"RST_2">>,
          publish |-> FALSE]
    ELSE [display_time |-> display_time,
          screen_int_time |-> screen_int_time,
          raised |-> <<>>,
          publish |-> FALSE]

\* a lock that is granted whoever holds it: no mutual exclusion
lock_unguarded(holder) == [acquired |-> TRUE, waits |-> FALSE]

\* Mutex::lock in place of try_lock: the caller waits while another holds it
lock_blocking(holder) == [acquired |-> TRUE, waits |-> holder # "free"]

\* Mutex::try_lock: Ok only when nobody holds the mutex, and never waits
try_lock(holder) == [acquired |-> holder = "free", waits |-> FALSE]

\* the while test ignoring the flag
loop_forever(run) == TRUE

\* the while test: running.load(Ordering::Relaxed)
loop_continues(run) == run

\* the end of one pass of the for body
NextIteration ==
    /\ batch_i' = batch_i + 1
    /\ emu_pc' = IF batch_i + 1 = BATCH_STEPS THEN "sleep" ELSE "step"

\* emulator_loop going on into the while loop whether the audio backend started
\* or not
EmuStart_ignores_failure(audio_ok) ==
    /\ emu_pc = "start"
    /\ audio_backend' = IF audio_ok THEN "ok" ELSE "failed"
    /\ emu_clock' = 0
    /\ next_display_time' = 0
    /\ next_screen_int_time' = FIRST_SCREEN_INT_TIME
    /\ emu_pc' = "loop"
    /\ UNCHANGED <<running, interrupts, max_step, emulator_thread, window, ui_pc,
                   batch_i, close_steps, bridgeVars, shiftVars, memVars>>
    /\ UNCHANGED <<ioVars, loadVars>>

\* emulator_loop up to the while loop: the audio backend starts or does not
EmuStart(audio_ok) ==
    /\ emu_pc = "start"
    /\ audio_backend' = IF audio_ok THEN "ok" ELSE "failed"
    /\ IF audio_ok
       THEN /\ emu_clock' = 0
            /\ next_display_time' = 0
            /\ next_screen_int_time' = FIRST_SCREEN_INT_TIME
            /\ emu_pc' = "loop"
            /\ UNCHANGED running
       ELSE /\ running' = FALSE
            /\ emu_pc' = "done"
            /\ UNCHANGED <<emu_clock, next_display_time, next_screen_int_time>>
    /\ UNCHANGED <<interrupts, max_step, emulator_thread, window, ui_pc, batch_i,
                   close_steps, bridgeVars, shiftVars, memVars>>
    /\ UNCHANGED <<ioVars, loadVars>>

\* the while test; frames is the model's horizon
EmuLoop(frames) ==
    /\ emu_pc = "loop"
    /\ loop_continues(running) => emu_clock < frames * DISPLAY_TIME_NANO_SEC
    /\ IF loop_continues(running)
       THEN /\ emu_pc' = "step"
            /\ batch_i' = 0
       ELSE /\ emu_pc' = "done"
            /\ UNCHANGED batch_i
    /\ UNCHANGED <<running, emulator_thread, window, ui_pc, close_steps,
                   schedVars, bridgeVars, shiftVars, memVars>>
    /\ UNCHANGED <<audio_backend, ioVars, loadVars>>

\* whether a step taking emu_time_nano_sec would have to wait for the mirror's
\* mutex before it can finish
EmuStepWaits(emu_time_nano_sec) ==
    LET clock == wrapping_add(emu_clock, emu_time_nano_sec)
        s == Schedule(clock, next_display_time, next_screen_int_time)
        l == try_lock(mirror_lock)
    IN s.publish /\ l.waits

\* the flags of SpaceInvadersAudioOutput1 and SpaceInvadersAudioOutput2
\* (main.rs 241-277): the bitfield's fields in order, lowest bit first
ufo(b) == BitOf(b, 0) = 1
shot(b) == BitOf(b, 1) = 1
flash(b) == BitOf(b, 2) = 1
invader_die(b) == BitOf(b, 3) = 1
extended_play(b) == BitOf(b, 4) = 1
fleet_movement_1(b) == BitOf(b, 0) = 1
fleet_movement_2(b) == BitOf(b, 1) = 1
fleet_movement_3(b) == BitOf(b, 2) = 1
fleet_movement_4(b) == BitOf(b, 3) = 1
ufo_hit(b) == BitOf(b, 4) = 1

\* the sounds built with loop_from_memory (main.rs 326-373): once started they
\* repeat until paused; the others are into_memory_sound clips that play once
LoopSounds == {"ufo_sound", "ufo_hit_sound"}

\* audio_manager.play(Box::new(sound.clone()))
Play(sound) ==
    [call |-> "play", sound |-> sound, looping |-> sound \in LoopSounds, paused |-> FALSE]

\* ufo_sound_controller.set_paused(p)
SetPaused(p) ==
    [call |-> "set_paused", sound |-> "ufo_sound", looping |-> TRUE, paused |-> p]

\* the port 3 arm without the else-if that pauses the ufo loop
audio1_events_no_stop(last, audio1) ==
    (IF ufo(audio1) /\ ~ufo(last) THEN <<SetPaused(FALSE)>> ELSE <<>>)
    \o (IF shot(audio1) /\ ~shot(last) THEN <<Play("shot_sound")>> ELSE <<>>)
    \o (IF flash(audio1) /\ ~flash(last) THEN <<Play("flash_sound")>> ELSE <<>>)
    \o (IF invader_die(audio1) /\ ~invader_die(last)
        THEN <<Play("invader_die_sound")>> ELSE <<>>)

\* the calls of the port 3 arm (main.rs 409-431), last being last_audio1
audio1_events(last, audio1) ==
    (IF ufo(audio1) /\ ~ufo(last) THEN <<SetPaused(FALSE)>>
     ELSE IF ~ufo(audio1) /\ ufo(last) THEN <<SetPaused(TRUE)>>
     ELSE <<>>)
    \o (IF shot(audio1) /\ ~shot(last) THEN <<Play("shot_sound")>> ELSE <<>>)
    \o (IF flash(audio1) /\ ~flash(last) THEN <<Play("flash_sound")>> ELSE <<>>)
    \o (IF invader_die(audio1) /\ ~invader_die(last)
        THEN <<Play("invader_die_sound")>> ELSE <<>>)

\* the port 5 arm testing the level of each flag, not its change
audio2_events_level(last, audio2) ==
    (IF fleet_movement_1(audio2) THEN <<Play("fleet_movement_1_sound")>> ELSE <<>>)
    \o (IF fleet_movement_2(audio2) THEN <<Play("fleet_movement_2_sound")>> ELSE <<>>)
    \o (IF fleet_movement_3(audio2) THEN <<Play("fleet_movement_3_sound")>> ELSE <<>>)
    \o (IF fleet_movement_4(audio2) THEN <<Play("fleet_movement_4_sound")>> ELSE <<>>)
    \o (IF ufo_hit(audio2) THEN <<Play("ufo_hit_sound")>> ELSE <<>>)

\* the calls of the port 5 arm (main.rs 433-457), last being last_audio2
audio2_events(last, audio2) ==
    (IF fleet_movement_1(audio2) /\ ~fleet_movement_1(last)
     THEN <<Play("fleet_movement_1_sound")>> ELSE <<>>)
    \o (IF fleet_movement_2(audio2) /\ ~fleet_movement_2(last)
        THEN <<Play("fleet_movement_2_sound")>> ELSE <<>>)
    \o (IF fleet_movement_3(audio2) /\ ~fleet_movement_3(last)
        THEN <<Play("fleet_movement_3_sound")>> ELSE <<>>)
    \o (IF fleet_movement_4(audio2) /\ ~fleet_movement_4(last)
        THEN <<Play("fleet_movement_4_sound")>> ELSE <<>>)
    \o (IF ufo_hit(audio2) /\ ~ufo_hit(last) THEN <<Play("ufo_hit_sound")>> ELSE <<>>)

\* AtomicU8::swap(0) in place of load: the latch is cleared by the read
swap_zero(ins, port) ==
    IF port \in DOMAIN ins THEN [ins EXCEPT ![port] = 0] ELSE ins

\* inputs.<port>.load(Ordering::Relaxed) (main.rs 463-465): the latches after it
load_relaxed(ins, port) == ins

\* the awaiting_input match with the arms of ports 1 and 2 exchanged
port_input_swapped(port, ins, reg, amt) ==
    CASE port = 0 -> ins[0]
      [] port = 1 -> ins[2]
      [] port = 2 -> ins[1]
      [] port = 3 -> output(reg, amt)
      [] OTHER -> 0

\* the match of the awaiting_input arm (main.rs 462-468): the byte for the port
port_input(port, ins, reg, amt) ==
    CASE port = 0 -> ins[0]
      [] port = 1 -> ins[1]
      [] port = 2 -> ins[2]
      [] port = 3 -> output(reg, amt)
      [] OTHER -> 0

\* the port dispatch of one step (main.rs 405-471): an output byte goes to the
\* shift register (ports 2, 4) or is decoded into sound calls (ports 3, 5), and
\* is dropped for any other port; an awaited input is resolved and handed to
\* the CPU
PortDispatch(io) ==
    LET out == io.kind = "out"
        in == io.kind = "in"
        events == IF out /\ io.port = 3 THEN audio1_events(last_audio1, io.val)
                  ELSE IF out /\ io.port = 5 THEN audio2_events(last_audio2, io.val)
                  ELSE <<>>
    IN
    /\ amount' = IF out /\ io.port = 2 THEN input_amount(io.val) ELSE amount
    /\ register' = IF out /\ io.port = 4 THEN input_data(register, io.val)
                   ELSE register
    /\ sr_ops' = IF out /\ io.port = 2 THEN Append(sr_ops, <<"amount", io.val>>)
                 ELSE IF out /\ io.port = 4 THEN Append(sr_ops, <<"data", io.val>>)
                 ELSE sr_ops
    /\ sr_out' = IF in /\ io.port = 3 THEN output(register, amount)
                 ELSE IF out /\ io.port \in {2, 4} THEN -1
                 ELSE sr_out
    /\ last_audio1' = IF out /\ io.port = 3 THEN io.val ELSE last_audio1
    /\ last_audio2' = IF out /\ io.port = 5 THEN io.val ELSE last_audio2
    /\ ufo_paused' = IF events # <<>> /\ events[1].call = "set_paused"
                     THEN events[1].paused
                     ELSE ufo_paused
    /\ port_written' = IF out /\ io.port \in DOMAIN port_written
                       THEN [port_written EXCEPT ![io.port] = io.val]
                       ELSE port_written
    /\ last_io' = [kind |-> io.kind, port |-> io.port, val |-> io.val,
                   prev |-> IF out /\ io.port \in DOMAIN port_written
                            THEN port_written[io.port] ELSE -1,
                   events |-> events,
                   input |-> IF in THEN port_input(io.port, inputs, register, amount)
                             ELSE -1]

\* one pass of the for body: cpu.step, the port dispatch, the clock, the
\* schedule test, the interrupt, and try_lock when the frame is due
EmuStep(emu_time_nano_sec, w, io) ==
    /\ emu_pc = "step"
    /\ ~EmuStepWaits(emu_time_nano_sec)
    /\ PortDispatch(io)
    /\ memory' = IF w = <<>> THEN memory ELSE write_byte(memory, w[1], w[2])
    /\ bulk_expect' = IF w = <<>> THEN bulk_expect ELSE NoBulk
    /\ byte_probe' = IF w = <<>> THEN byte_probe ELSE NoProbe
    /\ LET clock == wrapping_add(emu_clock, emu_time_nano_sec)
           s == Schedule(clock, next_display_time, next_screen_int_time)
           l == try_lock(mirror_lock)
       IN /\ emu_clock' = clock
          /\ next_display_time' = s.display_time
          /\ next_screen_int_time' = s.screen_int_time
          /\ interrupts' = interrupts \o s.raised
          /\ IF s.publish /\ l.acquired
             THEN /\ mirror_lock' = "emu"
                  /\ emu_pc' = "publish"
                  /\ UNCHANGED batch_i
             ELSE /\ NextIteration
                  /\ UNCHANGED mirror_lock
    /\ max_step' = IF emu_time_nano_sec > max_step THEN emu_time_nano_sec ELSE max_step
    /\ close_steps' = IF ui_pc \in {"joining", "exited"} THEN close_steps + 1
                      ELSE close_steps
    /\ inputs' = IF io.kind = "in" THEN load_relaxed(inputs, io.port) ELSE inputs
    /\ UNCHANGED <<running, emulator_thread, window, ui_pc, vram_mirror, frame,
                   redraw_requested, published, rom_image, mem_fault>>
    /\ UNCHANGED <<audio_backend, key_down, key_local, loadVars>>

\* inside the if let: copy the display buffer into the mirror, ask for a
\* redraw, drop the guard
EmuPublish ==
    /\ emu_pc = "publish"
    /\ vram_mirror' = memory.vram
    /\ published' = [published EXCEPT !.last = memory.vram]
    /\ redraw_requested' = TRUE
    /\ mirror_lock' = "free"
    /\ NextIteration
    /\ UNCHANGED <<running, emulator_thread, window, ui_pc, close_steps, frame,
                   schedVars, shiftVars, memVars>>
    /\ UNCHANGED <<audio_backend, ioVars, loadVars>>

\* where the two halves of a copy of the display buffer meet
HALF_BUFFER == DISPLAY_BUFFER_SIZE \div 2

\* dst[lo..hi].copy_from_slice(&src[lo..hi]) on buffers held as their stored cells
CopyRange(dst, src, lo, hi) ==
    [a \in {x \in DOMAIN dst : x < lo \/ x >= hi}
            \cup {x \in DOMAIN src : lo <= x /\ x < hi} |->
        IF lo <= a /\ a < hi THEN src[a] ELSE dst[a]]

\* copy_from_slice into the mirror (main.rs 484), its first half: the copy is
\* not one atomic step of the machine
EmuPublishLow ==
    /\ emu_pc = "publish"
    /\ vram_mirror' = CopyRange(vram_mirror, memory.vram, 0, HALF_BUFFER)
    /\ published' = [published EXCEPT !.last = memory.vram]
    /\ emu_pc' = "publish_high"
    /\ UNCHANGED <<running, emulator_thread, window, ui_pc, batch_i, close_steps,
                   mirror_lock, frame, redraw_requested, schedVars, shiftVars,
                   memVars>>
    /\ UNCHANGED <<audio_backend, ioVars, loadVars>>

\* the second half of the copy, request_redraw, and the guard dropped
EmuPublishHigh ==
    /\ emu_pc = "publish_high"
    /\ vram_mirror' = CopyRange(vram_mirror, memory.vram, HALF_BUFFER,
                                DISPLAY_BUFFER_SIZE)
    /\ redraw_requested' = TRUE
    /\ mirror_lock' = "free"
    /\ NextIteration
    /\ UNCHANGED <<running, emulator_thread, window, ui_pc, close_steps, frame,
                   published, schedVars, shiftVars, memVars>>
    /\ UNCHANGED <<audio_backend, ioVars, loadVars>>

\* after the for loop: sleep for what is left of the batch's emulated time, or
\* warn; either way back to the while test
EmuSleep ==
    /\ emu_pc = "sleep"
    /\ emu_pc' = "loop"
    /\ UNCHANGED <<running, emulator_thread, window, ui_pc, batch_i, close_steps,
                   schedVars, bridgeVars, shiftVars, memVars>>
    /\ UNCHANGED <<audio_backend, ioVars, loadVars>>

EmuThread(frames) ==
    \/ \E ok \in BOOLEAN : EmuStart(ok)
    \/ EmuLoop(frames)
    \/ \E t \in EmuNanos, w \in StepWrites : EmuStep(t, w, NoIO)
    \/ EmuPublish
    \/ EmuSleep

-----------------------------------------------------------------------------
(* SpaceInvaders (main.rs 508-824): the presentation thread                *)

\* ApplicationHandler::resumed
Resumed ==
    /\ main_pc = "built"
    /\ ui_pc = "events"
    /\ running' = TRUE
    /\ IF ~window
       THEN /\ window' = TRUE
            /\ emulator_thread' = "spawned"
            /\ emu_pc' = "start"
       ELSE UNCHANGED <<window, emulator_thread, emu_pc>>
    /\ UNCHANGED <<ui_pc, batch_i, close_steps, schedVars, bridgeVars, shiftVars,
                   memVars>>
    /\ UNCHANGED <<audio_backend, ioVars, loadVars>>

\* WindowEvent::RedrawRequested up to vram_mirror.lock() returning
RedrawLock ==
    /\ ui_pc = "events"
    /\ window
    /\ mirror_lock = "free"
    /\ mirror_lock' = "ui"
    /\ ui_pc' = "redraw"
    /\ redraw_requested' = FALSE
    /\ UNCHANGED <<running, emulator_thread, window, emu_pc, batch_i, close_steps,
                   vram_mirror, frame, published, schedVars, shiftVars, memVars>>
    /\ UNCHANGED <<audio_backend, ioVars, loadVars>>

\* WindowEvent::RedrawRequested with the lock held: copy the mirror into the
\* frame, render, drop the guard
RedrawCopy ==
    /\ ui_pc = "redraw"
    /\ frame' = vram_mirror
    /\ published' = [published EXCEPT !.redrawn = published.last]
    /\ mirror_lock' = "free"
    /\ ui_pc' = "events"
    /\ UNCHANGED <<running, emulator_thread, window, emu_pc, batch_i, close_steps,
                   vram_mirror, redraw_requested, schedVars, shiftVars, memVars>>
    /\ UNCHANGED <<audio_backend, ioVars, loadVars>>

\* copy_from_slice into the frame (main.rs 597-599), its first half
RedrawCopyLow ==
    /\ ui_pc = "redraw"
    /\ frame' = CopyRange(frame, vram_mirror, 0, HALF_BUFFER)
    /\ published' = [published EXCEPT !.redrawn = published.last]
    /\ ui_pc' = "redraw_high"
    /\ UNCHANGED <<running, emulator_thread, window, emu_pc, batch_i, close_steps,
                   mirror_lock, vram_mirror, redraw_requested, schedVars, shiftVars,
                   memVars>>
    /\ UNCHANGED <<audio_backend, ioVars, loadVars>>

\* the second half of the copy, render, and the guard dropped
RedrawCopyHigh ==
    /\ ui_pc = "redraw_high"
    /\ frame' = CopyRange(frame, vram_mirror, HALF_BUFFER, DISPLAY_BUFFER_SIZE)
    /\ mirror_lock' = "free"
    /\ ui_pc' = "events"
    /\ UNCHANGED <<running, emulator_thread, window, emu_pc, batch_i, close_steps,
                   vram_mirror, redraw_requested, published, schedVars, shiftVars,
                   memVars>>
    /\ UNCHANGED <<audio_backend, ioVars, loadVars>>

\* WindowEvent::CloseRequested up to thread.join()
CloseRequested ==
    /\ ui_pc = "events"
    /\ window
    /\ running' = FALSE
    /\ IF emulator_thread = "spawned"
       THEN /\ emulator_thread' = "taken"
            /\ ui_pc' = "joining"
       ELSE /\ ui_pc' = "exited"
            /\ UNCHANGED emulator_thread
    /\ UNCHANGED <<window, emu_pc, batch_i, close_steps, schedVars, bridgeVars,
                   shiftVars, memVars>>
    /\ UNCHANGED <<audio_backend, ioVars, loadVars>>

\* thread.join() returning, then event_loop.exit()
Join ==
    /\ ui_pc = "joining"
    /\ emu_pc = "done"
    /\ ui_pc' = "exited"
    /\ UNCHANGED <<running, emulator_thread, window, emu_pc, batch_i, close_steps,
                   schedVars, bridgeVars, shiftVars, memVars>>
    /\ UNCHANGED <<audio_backend, ioVars, loadVars>>

\* the keys a KeyboardInput event may carry: the nine the match names and one
\* it does not
Keys == {"ArrowRight", "ArrowLeft", "ArrowUp", "c", "1", "2", "w", "a", "d", "Escape"}

\* the key bound to a bit that has no setter (always_one of inputs.1)
key_binding_fixed_bit ==
    ("ArrowRight" :> [latch |-> 1, bit |-> 6])
    @@ ("ArrowLeft" :> [latch |-> 1, bit |-> 5])
    @@ ("ArrowUp" :> [latch |-> 1, bit |-> 4])
    @@ ("c" :> [latch |-> 1, bit |-> 3])
    @@ ("1" :> [latch |-> 1, bit |-> 2])
    @@ ("2" :> [latch |-> 1, bit |-> 1])
    @@ ("w" :> [latch |-> 2, bit |-> 4])
    @@ ("a" :> [latch |-> 2, bit |-> 5])
    @@ ("d" :> [latch |-> 2, bit |-> 6])

\* the arms of the match on key (main.rs 624-716, 728-819): the latch each key
\* loads and stores, and the bit its setter writes (the field's position in
\* SpaceInvadersInput1, main.rs 211-223, or SpaceInvadersInput2, main.rs 225-239)
key_binding ==
    ("ArrowRight" :> [latch |-> 1, bit |-> 6])
    @@ ("ArrowLeft" :> [latch |-> 1, bit |-> 5])
    @@ ("ArrowUp" :> [latch |-> 1, bit |-> 4])
    @@ ("c" :> [latch |-> 1, bit |-> 0])
    @@ ("1" :> [latch |-> 1, bit |-> 2])
    @@ ("2" :> [latch |-> 1, bit |-> 1])
    @@ ("w" :> [latch |-> 2, bit |-> 4])
    @@ ("a" :> [latch |-> 2, bit |-> 5])
    @@ ("d" :> [latch |-> 2, bit |-> 6])

\* a bitfield setter: from_bytes([byte]), set_<field>(v), into_bytes()[0]
set_flag(byte, bit, v) ==
    IF v THEN BitOr(byte, Pow2(bit), 8) ELSE BitAnd(byte, 255 - Pow2(bit), 8)

\* a key arm that stores the new byte to both player latches
key_event_both_players(ins, key, pressed) ==
    IF key \in DOMAIN key_binding
    THEN LET byte == set_flag(ins[key_binding[key].latch], key_binding[key].bit, pressed)
         IN [ins EXCEPT ![1] = byte, ![2] = byte]
    ELSE ins

\* one KeyboardInput event: the latches after it
key_event(ins, key, pressed) ==
    IF key \in DOMAIN key_binding
    THEN LET b == key_binding[key]
         IN [ins EXCEPT ![b.latch] = set_flag(ins[b.latch], b.bit, pressed)]
    ELSE ins

\* WindowEvent::KeyboardInput with ElementState::Pressed
KeyPressed(key) ==
    /\ ui_pc = "events"
    /\ window
    /\ inputs' = key_event(inputs, key, TRUE)
    /\ key_down' = [key_down EXCEPT ![key] = TRUE]
    /\ UNCHANGED <<last_audio1, last_audio2, ufo_paused, last_io, port_written,
                   key_local>>
    /\ UNCHANGED <<shiftVars, memVars, emuVars, audio_backend, loadVars>>

\* WindowEvent::KeyboardInput with ElementState::Released
KeyReleased(key) ==
    /\ ui_pc = "events"
    /\ window
    /\ inputs' = key_event(inputs, key, FALSE)
    /\ key_down' = [key_down EXCEPT ![key] = FALSE]
    /\ UNCHANGED <<last_audio1, last_audio2, ufo_paused, last_io, port_written,
                   key_local>>
    /\ UNCHANGED <<shiftVars, memVars, emuVars, audio_backend, loadVars>>

\* no key arm is between its load and its store, and none has been
NoKeyLocal == [key |-> "none", pressed |-> FALSE, val |-> 0,
               prev_key |-> "none", prev_pressed |-> FALSE, prev_val |-> 0]

\* a key arm up to its load (main.rs 626-630): val is the latch byte it loaded.
\* The arm's load and its store are two steps of the machine; the emulation
\* thread may run between them
KeyLoad(key, pressed) ==
    /\ ui_pc = "events"
    /\ window
    /\ key \in DOMAIN key_binding
    /\ key_local' = [key |-> key, pressed |-> pressed,
                     val |-> inputs[key_binding[key].latch],
                     prev_key |-> key_local.key,
                     prev_pressed |-> key_local.pressed,
                     prev_val |-> key_local.val]
    /\ ui_pc' = "key"
    /\ UNCHANGED <<inputs, last_audio1, last_audio2, ufo_paused, last_io, port_written,
                   key_down>>
    /\ UNCHANGED <<running, emulator_thread, window, emu_pc, batch_i, close_steps,
                   schedVars, bridgeVars, shiftVars, memVars, audio_backend,
                   loadVars>>

\* the rest of the key arm (main.rs 631-633): the setter on the local val and the
\* store of its byte
KeyStore ==
    /\ ui_pc = "key"
    /\ LET b == key_binding[key_local.key]
       IN inputs' = [inputs EXCEPT
                        ![b.latch] = set_flag(key_local.val, b.bit, key_local.pressed)]
    /\ key_down' = [key_down EXCEPT ![key_local.key] = key_local.pressed]
    /\ ui_pc' = "events"
    /\ UNCHANGED <<last_audio1, last_audio2, ufo_paused, last_io, port_written,
                   key_local>>
    /\ UNCHANGED <<running, emulator_thread, window, emu_pc, batch_i, close_steps,
                   schedVars, bridgeVars, shiftVars, memVars, audio_backend,
                   loadVars>>

\* SpaceInvaders::new, and the values emulator_loop's locals start with
InitEmu ==
    /\ running = FALSE
    /\ emulator_thread = "none"
    /\ window = FALSE
    /\ ui_pc = "events"
    /\ emu_pc = "idle"
    /\ batch_i = 0
    /\ emu_clock = 0
    /\ next_display_time = 0
    /\ next_screen_int_time = FIRST_SCREEN_INT_TIME
    /\ interrupts = <<>>
    /\ mirror_lock = "free"
    /\ vram_mirror = <<>>
    /\ frame = <<>>
    /\ redraw_requested = FALSE
    /\ max_step = 0
    /\ close_steps = 0
    /\ audio_backend = "unknown"
    /\ inputs = (0 :> 143 @@ 1 :> 8 @@ 2 :> 0)
    /\ last_audio1 = 0
    /\ last_audio2 = 0
    /\ ufo_paused = TRUE
    /\ last_io = [kind |-> "none", port |-> 0, val |-> 0, prev |-> -1,
                  events |-> <<>>, input |-> -1]
    /\ port_written = (3 :> -1 @@ 5 :> -1)
    /\ published = [last |-> <<>>, redrawn |-> <<>>]
    /\ key_down = [k \in Keys |-> FALSE]
    /\ key_local = NoKeyLocal

-----------------------------------------------------------------------------
(* The shift register's contract, stated in plain arithmetic over the      *)
(* calls made so far.                                                      *)

\* the register after the calls ops, by (b * 256) + (r div 256) per fed byte
RECURSIVE RefRegister(_)
RefRegister(ops) ==
    IF ops = <<>> THEN 0
    ELSE LET r == RefRegister(SubSeq(ops, 1, Len(ops) - 1))
             op == ops[Len(ops)]
         IN IF op[1] = "data" THEN op[2] * 256 + (r \div 256) ELSE r

\* the shift amount after the calls ops: the last amount written, modulo 8
RECURSIVE RefAmount(_)
RefAmount(ops) ==
    IF ops = <<>> THEN 0
    ELSE LET op == ops[Len(ops)]
         IN IF op[1] = "amount" THEN op[2] % 8
            ELSE RefAmount(SubSeq(ops, 1, Len(ops) - 1))

Fed(bs) == [i \in 1..Len(bs) |-> <<"data", bs[i]>>]

\* C1: input_data(b) sets register to (b << 8) | (r >> 8) and leaves the shift
\* amount as it was; from reset, feeding 0xAA, 0xFF, 0x12 gives 0xAA00, 0xFFAA,
\* 0x12FF in that order.
C1_FeedShiftsHighByteDown ==
    /\ register = RefRegister(sr_ops)
    /\ (sr_ops # <<>> /\ sr_ops[Len(sr_ops)][1] = "data")
          => amount = RefAmount(SubSeq(sr_ops, 1, Len(sr_ops) - 1))
    /\ sr_ops = Fed(<<170>>) => register = 43520
    /\ sr_ops = Fed(<<170, 255>>) => register = 65450
    /\ sr_ops = Fed(<<170, 255, 18>>) => register = 4863

C1_Witness ==
    /\ sr_ops = Fed(<<170, 255, 18>>)
    /\ register = 4863
    /\ amount = 0

\* C2: the stored amount is n mod 8 for the last n written, and output() returns
\* the 8 bits of the register starting at bit (8 - amount); 0x12FF reads 0x12 at
\* amount 0, 0b01001011 at amount 2 and 0b01111111 at amount 7.
C2_OutputWindow ==
    /\ amount = RefAmount(sr_ops)
    /\ (sr_ops # <<>> /\ sr_ops[Len(sr_ops)][1] = "amount")
          => amount = sr_ops[Len(sr_ops)][2] % 8
    /\ sr_out # -1 =>
          /\ sr_out \in 0..255
          /\ \A i \in 0..7 : BitOf(sr_out, i) = BitOf(register, i + 8 - amount)
    /\ (sr_out # -1 /\ register = 4863 /\ amount = 0) => sr_out = 18
    /\ (sr_out # -1 /\ register = 4863 /\ amount = 2) => sr_out = 75
    /\ (sr_out # -1 /\ register = 4863 /\ amount = 7) => sr_out = 127

C2_Witness ==
    /\ register = 4863
    /\ sr_ops[Len(sr_ops)] = <<"amount", 10>>
    /\ amount = 2
    /\ sr_out = 75

\* C3 as stated: with amount 0, output() returns the low byte of the register.
C3_Original_LowByteAtZero ==
    (sr_out # -1 /\ amount = 0) => sr_out = register % 256

\* C3 as amended: with amount 0, output() returns the high byte of the register
\* (bits 8..15), unshifted.
C3_HighByteAtZero ==
    (sr_out # -1 /\ amount = 0) => sr_out = register \div 256

C3_Witness ==
    /\ amount = 0
    /\ register = 4863
    /\ sr_out = 18

-----------------------------------------------------------------------------
(* The memory image's contract.                                            *)

\* C4: an address and the same address plus any multiple of 0x4000 (within 16
\* bits) read the same byte, and a byte write through either leaves the same
\* memory.
C4_AddressMirroring ==
    \A a \in MemAddrs, k \in 1..3 :
        (a + k * WindowSize <= 65535) =>
            /\ read_byte(memory, a + k * WindowSize) = read_byte(memory, a)
            /\ \A v \in MemBytes :
                  write_byte(memory, a + k * WindowSize, v) = write_byte(memory, a, v)

C4_Witness ==
    /\ 0 \in DOMAIN memory.ram
    /\ read_byte(memory, 8192) = 165
    /\ read_byte(memory, 8192 + 3 * WindowSize) = 165
    /\ read_byte(memory, 16383) = 165
    /\ read_byte(memory, 65535) = 165

\* C5 as stated: after any write_byte and write_bytes calls, every byte of the
\* Program region still equals the image the memory was constructed with.
C5_ProgramRegionReadOnly ==
    \A a \in DOMAIN memory.rom \cup {ROM_START, ROM_END - 1} :
        /\ RomAt(memory, a) = ImageByte(rom_image, a)
        /\ read_byte(memory, a) = ImageByte(rom_image, a)

-----------------------------------------------------------------------------
(* The interrupt schedule, the frame mirror and shutdown.                  *)

\* how many of the first n interrupts raised are x
CountUpTo(x, n) == Cardinality({i \in 1..n : interrupts[i] = x})

Count(x) == CountUpTo(x, Len(interrupts))

\* the smallest distance between two schedule marks: from an end-of-frame mark
\* to the next mid-frame mark, or from that one to the next end-of-frame mark
SmallestGap ==
    IF FIRST_SCREEN_INT_TIME < DISPLAY_TIME_NANO_SEC - FIRST_SCREEN_INT_TIME
    THEN FIRST_SCREEN_INT_TIME
    ELSE DISPLAY_TIME_NANO_SEC - FIRST_SCREEN_INT_TIME

\* C6: with every CPU step shorter than the smallest gap between two marks, the
\* interrupts raised alternate strictly between the two kinds, and while the
\* emulated clock runs from 0 to 1,000,000,000 ns the mid-frame interrupt
\* (RST_2) and the end-of-frame interrupt (RST_3) are raised 60 times each: never
\* more within the second, and all 60 of each by the time the clock is within
\* one smallest gap of the second's end.
C6_CadenceOverOneSecond ==
    max_step < SmallestGap =>
        /\ \A i \in 1..(Len(interrupts) - 1) : interrupts[i] # interrupts[i + 1]
        /\ emu_clock <= 1000000000 =>
              /\ Count("RST_2") <= 60
              /\ Count("RST_3") <= 60
        /\ (emu_clock <= 1000000000 /\ emu_clock >= 1000000000 - SmallestGap) =>
              /\ Count("RST_2") = 60
              /\ Count("RST_3") = 60

C6_Witness ==
    /\ max_step = 7000000
    /\ emu_clock <= 1000000000
    /\ emu_clock >= 1000000000 - SmallestGap
    /\ Count("RST_2") = 60
    /\ Count("RST_3") = 60

\* C7 as stated: the first interrupt raised is the mid-frame interrupt (RST_2),
\* and every end-of-frame interrupt (RST_3) has its own mid-frame interrupt
\* before it.
C7_MidFrameFirst ==
    /\ interrupts # <<>> => interrupts[1] = "RST_2"
    /\ \A i \in 1..Len(interrupts) :
          interrupts[i] = "RST_3" => CountUpTo("RST_2", i) >= CountUpTo("RST_3", i)

\* what a step may do to the interrupts raised and the two marks: at most one
\* interrupt; the step that raises one advances the mark that fired by
\* 16,666,667 ns and leaves the other mark alone
C8_StepRaisesAtMostOne ==
    LET n == Len(interrupts)
    IN /\ Len(interrupts') \in {n, n + 1}
       /\ SubSeq(interrupts', 1, n) = interrupts
       /\ Len(interrupts') = n =>
             /\ next_display_time' = next_display_time
             /\ next_screen_int_time' = next_screen_int_time
       /\ (Len(interrupts') = n + 1 /\ interrupts'[n + 1] = "RST_3") =>
             /\ next_display_time <= emu_clock'
             /\ next_display_time' = next_display_time + 16666667
             /\ next_screen_int_time' = next_screen_int_time
       /\ (Len(interrupts') = n + 1 /\ interrupts'[n + 1] = "RST_2") =>
             /\ next_screen_int_time <= emu_clock'
             /\ next_screen_int_time' = next_screen_int_time + 16666667
             /\ next_display_time' = next_display_time
       /\ Len(interrupts') = n + 1 => interrupts'[n + 1] \in {"RST_2", "RST_3"}

\* C8: every step of the program raises at most one interrupt and advances
\* exactly the mark that fired, by one frame period.
C8_OneInterruptPerStep == [][C8_StepRaisesAtMostOne]_vars

\* both marks were due in one step: the end-of-frame interrupt was raised and
\* the mid-frame mark is still waiting
C8_Witness ==
    /\ interrupts # <<>>
    /\ interrupts[Len(interrupts)] = "RST_3"
    /\ next_screen_int_time <= emu_clock
    /\ Count("RST_2") >= 1

\* a step whose end-of-frame event finds the mirror lock held by the
\* presentation thread leaves the mirror as it is, still raises the end-of-frame
\* interrupt, and goes on to the next pass of the loop
C9_SkipStep ==
    (/\ emu_pc = "step"
     /\ mirror_lock = "ui"
     /\ emu_clock' # emu_clock
     /\ next_display_time <= emu_clock') =>
        /\ vram_mirror' = vram_mirror
        /\ redraw_requested' = redraw_requested
        /\ interrupts' = Append(interrupts, "RST_3")
        /\ mirror_lock' = "ui"
        /\ batch_i' = batch_i + 1
        /\ emu_pc' \in {"step", "sleep"}

\* C9: the emulation thread's step is never kept waiting for the mirror lock,
\* and an end-of-frame step taken while the presentation thread holds the lock
\* skips the publish (mirror unchanged), still raises the end-of-frame
\* interrupt, and goes on to the next pass of the loop.
C9_NeverWaitsOnMirror ==
    /\ [](emu_pc = "step" => \A t \in EmuNanos : ~EmuStepWaits(t))
    /\ [][C9_SkipStep]_vars

\* the first step wrote a video byte and raised the end-of-frame interrupt
\* while the presentation thread held the lock: nothing was published
C9_Witness ==
    /\ mirror_lock = "ui"
    /\ interrupts = <<"RST_3">>
    /\ emu_pc = "step"
    /\ batch_i = 1
    /\ memory.vram # <<>>
    /\ vram_mirror = <<>>
    /\ ~redraw_requested

\* C10: once CloseRequested has stored false, the emulation thread runs at most
\* the 5 steps of its current batch, leaves the loop at its next while test,
\* and the join returns.
C10_ShutdownTerminates ==
    /\ [](close_steps <= 5)
    /\ [][(emu_pc = "loop" /\ ~running /\ emu_pc' # emu_pc) => emu_pc' = "done"]_vars
    /\ (ui_pc = "joining") ~> (ui_pc = "exited")

C10_Witness ==
    /\ ui_pc = "exited"
    /\ emulator_thread = "taken"
    /\ emu_pc = "done"
    /\ close_steps = 5

-----------------------------------------------------------------------------
(* The input latches and the ports.                                        *)

\* C11: every event that changes the player-1 latch (inputs.1) leaves the
\* player-2 latch (inputs.2) and the system latch (inputs.0) as they were, and
\* every event that changes the player-2 latch leaves the other two as they were.
C11_LatchIsolation ==
    [][/\ inputs'[1] # inputs[1] => (inputs'[0] = inputs[0] /\ inputs'[2] = inputs[2])
       /\ inputs'[2] # inputs[2] => (inputs'[0] = inputs[0] /\ inputs'[1] = inputs[1])]_vars

\* right and credit are down for player 1, fire for player 2
C11_Witness ==
    /\ inputs[1] = 8 + 64 + 1
    /\ inputs[2] = 16
    /\ inputs[0] = 143

\* the last step wrote a byte to a sound port
SoundWrite(port) == last_io.kind = "out" /\ last_io.port = port

\* the flags the previous write to the port of the last write had set: none
\* before the first write
PrevFlags == IF last_io.prev = -1 THEN 0 ELSE last_io.prev

\* the sound each flag of a port stands for, by bit: bank A (port 3) is ufo loop,
\* shot, flash, invader-die, extended-play; bank B (port 5) is fleet-step-1..4,
\* ufo-hit
FlagSound ==
    (3 :> <<"ufo_sound", "shot_sound", "flash_sound", "invader_die_sound",
            "extended_play_sound">>)
    @@ (5 :> <<"fleet_movement_1_sound", "fleet_movement_2_sound",
               "fleet_movement_3_sound", "fleet_movement_4_sound", "ufo_hit_sound">>)

\* a start-effect event: a clip is played, or the paused loop is let run
IsStart(e, port, k) ==
    /\ e.sound = FlagSound[port][k + 1]
    /\ e.call = "play" \/ (e.call = "set_paused" /\ ~e.paused)

\* a stop-effect event: the loop is paused
IsStop(e, port, k) ==
    /\ e.sound = FlagSound[port][k + 1]
    /\ e.call = "set_paused" /\ e.paused

\* how many start and stop events for flag k the last write emitted
Starts(port, k) ==
    Cardinality({n \in 1..Len(last_io.events) : IsStart(last_io.events[n], port, k)})
Stops(port, k) ==
    Cardinality({n \in 1..Len(last_io.events) : IsStop(last_io.events[n], port, k)})

Rising(k) == BitOf(last_io.val, k) = 1 /\ BitOf(PrevFlags, k) = 0
Falling(k) == BitOf(last_io.val, k) = 0 /\ BitOf(PrevFlags, k) = 1

\* C12 as stated: a byte written to a sound port right after the same byte
\* emits no event, and the first write to a port emits exactly one start event
\* for each of the port's five flags set in the byte.
C12_Original_EveryFlagStarts ==
    \A port \in {3, 5} :
        SoundWrite(port) =>
            /\ last_io.prev = last_io.val => last_io.events = <<>>
            /\ last_io.prev = -1 =>
                  \A k \in 0..4 : BitOf(last_io.val, k) = 1 => Starts(port, k) = 1

\* the flags of a port whose change the decoder acts on: all of bank B, and bank
\* A without extended-play
DecodedFlags(port) == IF port = 3 THEN 0..3 ELSE 0..4

\* C12 as amended: a byte written to a sound port right after the same byte
\* emits no event, and the first write to a port emits exactly one start event
\* for each set flag other than extended-play, for which it emits none.
C12_EdgeTriggered ==
    \A port \in {3, 5} :
        SoundWrite(port) =>
            /\ last_io.prev = last_io.val => last_io.events = <<>>
            /\ last_io.prev = -1 =>
                  /\ \A k \in DecodedFlags(port) :
                        Starts(port, k) = BitOf(last_io.val, k)
                  /\ \A k \in (0..4) \ DecodedFlags(port) : Starts(port, k) = 0

\* port 5 was written 31 for the first time and then 31 again
C12_Witness ==
    /\ SoundWrite(5)
    /\ last_io.prev = 31
    /\ last_io.val = 31
    /\ last_io.events = <<>>
    /\ port_written[3] = 31

\* C15: when the audio backend fails to start, the emulation thread clears the
\* run flag in that step and is done: no CPU step, no interrupt, no write of the
\* mirror, the mirror lock never taken by it, and a join on it returns at once.
C15_DegradedStart ==
    /\ [](audio_backend = "failed" =>
            /\ emu_pc = "done"
            /\ emu_clock = 0
            /\ max_step = 0
            /\ interrupts = <<>>
            /\ vram_mirror = <<>>
            /\ ~redraw_requested
            /\ mirror_lock # "emu"
            /\ ui_pc = "events" => mirror_lock = "free"
            /\ last_io.kind = "none")
    /\ [][(audio_backend # "failed" /\ audio_backend' = "failed") =>
             (~running' /\ emu_pc' = "done" /\ ui_pc' = ui_pc)]_vars

\* the backend failed, and the presentation thread has since served a resume
\* (the run flag is set again) and is serving a redraw
C15_Witness ==
    /\ audio_backend = "failed"
    /\ emu_pc = "done"
    /\ running
    /\ ui_pc = "redraw"
    /\ mirror_lock = "ui"

\* C16 as stated: on a write to port 3 each of the five flags that is set now
\* and was clear in the previous write emits exactly one start event, a flag
\* clear now and set before emits a stop event only if it is the ufo loop, and
\* nothing else is emitted.
C16_Original_FiveFlags ==
    SoundWrite(3) =>
        /\ \A k \in 0..4 :
              /\ Starts(3, k) = IF Rising(k) THEN 1 ELSE 0
              /\ Stops(3, k) = IF Falling(k) /\ k = 0 THEN 1 ELSE 0
        /\ Len(last_io.events) =
              Cardinality({k \in 0..4 : Rising(k)}) + (IF Falling(0) THEN 1 ELSE 0)

\* C16 as amended: on a write to port 3 each of the four flags ufo loop, shot,
\* flash, invader-die that is set now and was clear in the previous write emits
\* exactly one start event, the ufo loop going from set to clear emits one stop
\* event, and nothing else is emitted: extended-play emits nothing either way.
C16_BankA_FourFlags ==
    SoundWrite(3) =>
        /\ \A k \in 0..3 :
              /\ Starts(3, k) = IF Rising(k) THEN 1 ELSE 0
              /\ Stops(3, k) = IF Falling(k) /\ k = 0 THEN 1 ELSE 0
        /\ Starts(3, 4) = 0 /\ Stops(3, 4) = 0
        /\ Len(last_io.events) =
              Cardinality({k \in 0..3 : Rising(k)}) + (IF Falling(0) THEN 1 ELSE 0)
        /\ ufo_paused = ~ufo(last_io.val)

\* port 3 went from all five flags to extended-play alone: the ufo loop was
\* paused and nothing else happened
C16_Witness ==
    /\ SoundWrite(3)
    /\ last_io.prev = 31
    /\ last_io.val = 16
    /\ last_io.events = <<SetPaused(TRUE)>>
    /\ ufo_paused

\* C17 as stated: on a write to port 5 each of the five flags that is set now
\* and was clear in the previous write emits exactly one start event, of a
\* one-shot effect, and a flag going from set to clear emits nothing.
C17_BankB_OneShots ==
    SoundWrite(5) =>
        /\ \A k \in 0..4 :
              /\ Starts(5, k) = IF Rising(k) THEN 1 ELSE 0
              /\ Stops(5, k) = 0
        /\ Len(last_io.events) = Cardinality({k \in 0..4 : Rising(k)})
        /\ \A n \in 1..Len(last_io.events) :
              last_io.events[n].call = "play" /\ ~last_io.events[n].looping

\* a step that served an input request: the for body was passed with
\* awaiting_input set
ServedInput == emu_pc = "step" /\ <<emu_pc, batch_i>>' # <<emu_pc, batch_i>>
               /\ last_io'.kind = "in"

\* C18: the byte handed to write_input is the system latch for port 0, the
\* player-1 latch for port 1, the player-2 latch for port 2, the shift
\* register's read (register >> (8 - amount), low 8 bits) for port 3 and zero for
\* any other port, each as it is when the request is served; serving the
\* request changes neither the latches nor the shift register.
C18_InputPortResolution ==
    [][ServedInput =>
        /\ last_io'.port = 0 => last_io'.input = inputs[0]
        /\ last_io'.port = 1 => last_io'.input = inputs[1]
        /\ last_io'.port = 2 => last_io'.input = inputs[2]
        /\ last_io'.port = 3 =>
              last_io'.input = (register \div Pow2(8 - amount)) % 256
        /\ last_io'.port \notin 0..3 => last_io'.input = 0
        /\ inputs' = inputs
        /\ register' = register
        /\ amount' = amount]_vars

\* port 2 was read while player 2's fire was down and player 1's right was
\* down, after the shift register had been fed
C18_Witness ==
    /\ last_io.kind = "in"
    /\ last_io.port = 2
    /\ last_io.input = 16
    /\ inputs[1] = 8 + 64
    /\ inputs[2] = 16
    /\ register # 0

\* C19: after any key events bit 3 of the player-1 latch is 1, bits 0, 1, 3 and
\* 7 of the player-2 latch are 0, and the system latch is 0x8F.
C19_FixedBits ==
    /\ BitOf(inputs[1], 3) = 1
    /\ \A k \in {0, 1, 3, 7} : BitOf(inputs[2], k) = 0
    /\ inputs[0] = 143

\* every bound key is down: both latches have all their key bits set
C19_Witness ==
    /\ inputs[1] = 127
    /\ inputs[2] = 112
    /\ inputs[0] = 143

-----------------------------------------------------------------------------
(* Display conversion, image loading and bulk access.                      *)

\* display pixel p of a display buffer: its four bytes
PixelAt(m, p) ==
    <<VramAt(m, 4 * p), VramAt(m, 4 * p + 1), VramAt(m, 4 * p + 2), VramAt(m, 4 * p + 3)>>

\* C13 as stated: a new memory with one video byte written, of one set bit b at
\* video offset i, has the pixel at row 255 - ((8i + b) mod 256) and column
\* (8i + b) div 256 opaque white and every other pixel opaque black.
C13_SingleBitFrame ==
    \A a \in VideoAddrs, b \in 0..7 :
        LET i == a - VRAM_START
            white == (255 - ((8 * i + b) % 256)) * 224 + ((8 * i + b) \div 256)
        IN (memory = [rom |-> <<>>, ram |-> <<>>,
                      vram |-> write_vram(<<>>, i, Pow2(b))]) =>
              \A p \in 0..(SCREEN_SIZE_PIXELS - 1) :
                  PixelAt(memory, p) = IF p = white THEN <<255, 255, 255, 255>>
                                       ELSE <<0, 0, 0, 255>>

\* C14 as stated: when the read yields fewer bytes than the Program region has,
\* load_rom returns an error and no memory is built.
C14_ShortReadFails ==
    (main_pc # "load" /\ rom_len < ROM_SIZE) => main_pc = "failed"

\* C20 as stated: a write_bytes that stays inside the Working or the Video
\* region leaves the memory that write_byte for each byte in order would leave,
\* and read_bytes of the same length at the same address returns the bytes.
C20_BulkEqualsByteWrites ==
    bulk_expect.set =>
        /\ memory = bulk_expect.mem
        /\ bulk_expect.read = bulk_expect.val
        /\ ~mem_fault

\* the address the probed write_byte decoded, and whether it is a Video cell or a
\* Working cell
ProbeAddr == MaskAddr(byte_probe.addr)
ProbeInVideo == byte_probe.set /\ VRAM_START <= ProbeAddr /\ ProbeAddr < VRAM_END
ProbeInWorking == byte_probe.set /\ RAM_START <= ProbeAddr /\ ProbeAddr < RAM_END

\* the pixels with a byte stored in m.vram since construction; every other pixel
\* of m still is the constructed 00 00 00 00
Touched(m) == {a \div 4 : a \in DOMAIN m.vram}

\* the slice write_vram takes for bit b of video offset i starts at the pixel the
\* rotation formula names, over the whole Video region
PlacementFormula ==
    \A i \in 0..(VRAM_SIZE - 1), b \in 0..7 :
        write_vram_byte_address(i, b) =
            ((255 - ((8 * i + b) % 256)) * 224 + ((8 * i + b) \div 256)) * 4

\* C22: write_byte of v to video offset i sets, for each bit b, the pixel at
\* display index (255 - ((8i + b) mod 256)) * 224 + ((8i + b) div 256) to
\* FF FF FF FF when bit b of v is set and to 00 00 00 FF when it is clear, and
\* leaves every other pixel of the display frame as it was.
C22_PixelPlacement ==
    /\ PlacementFormula
    /\ ProbeInVideo =>
        LET i == ProbeAddr - VRAM_START
            v == byte_probe.val
            target(b) == (255 - ((8 * i + b) % 256)) * 224 + ((8 * i + b) \div 256)
            targets == {target(b) : b \in 0..7}
        IN /\ \A b \in 0..7 :
                  PixelAt(memory, target(b)) =
                      IF BitOf(v, b) = 1 THEN <<255, 255, 255, 255>>
                      ELSE <<0, 0, 0, 255>>
           /\ \A p \in (Touched(memory) \cup Touched(byte_probe.before)) \ targets :
                  PixelAt(memory, p) = PixelAt(byte_probe.before, p)
           /\ memory.ram = byte_probe.before.ram
           /\ memory.rom = byte_probe.before.rom

\* a video byte written over a frame that already holds other written pixels
C22_Witness ==
    /\ ProbeInVideo
    /\ byte_probe.val = 165
    /\ Touched(byte_probe.before) # {}
    /\ \E p \in Touched(byte_probe.before) :
           /\ PixelAt(memory, p) = <<255, 255, 255, 255>>
           /\ \A b \in 0..7 :
                  p # get_display_pixel_address(ProbeAddr - VRAM_START, b)

\* the other addresses read after a probed write: the cells of every region the
\* runs touch, and the neighbours of the written cell in its display column and
\* in the next column
ProbeOthers ==
    MemAddrs \cup VideoAddrs \cup BulkAddrs \cup ByteAddrs
    \cup {(byte_probe.addr + d) % 65536 : d \in {1, 32, 65535, 65504}}

\* C23: read_byte(A) right after write_byte(A, v), for A decoding into the
\* Working or the Video region, returns v and leaves read_byte(B) as it was for
\* every B decoding to another cell; before any write every Working and Video
\* address reads 0.
C23_ByteRoundTrip ==
    /\ (ProbeInWorking \/ ProbeInVideo) =>
           /\ byte_probe.read = byte_probe.val
           /\ \A B \in ProbeOthers :
                  MaskAddr(B) # ProbeAddr =>
                      read_byte(memory, B) = read_byte(byte_probe.before, B)
    /\ (memory.ram = <<>> /\ memory.vram = <<>>) =>
           \A a \in RAM_START..(VRAM_END - 1) :
               /\ read_byte(memory, a) = 0
               /\ read_byte(memory, a + WindowSize) = 0

\* a video cell that read 0 written with A5 and read back, beside a cell of the
\* same display column that holds A5 from before
C23_Witness ==
    /\ ProbeInVideo
    /\ ProbeAddr = VRAM_START
    /\ byte_probe.val = 165
    /\ byte_probe.read = 165
    /\ read_byte(byte_probe.before, VRAM_START) = 0
    /\ read_byte(byte_probe.before, VRAM_START + 1) = 165
    /\ read_byte(memory, VRAM_START + 1) = 165

\* the pixel indices read_vram computes over the whole Video region
VideoPixels ==
    {get_display_pixel_address(i, b) : i \in 0..(VRAM_SIZE - 1), b \in 0..7}

\* C25: for every video offset i and bit b the row 255 - ((8i) mod 256) - b is
\* not below 0, the 4-byte slice of write_vram and the byte read_vram indexes lie
\* inside the display buffer of 256 * 224 * 4 bytes, and distinct (i, b) map to
\* distinct pixels, so the 8 * 0x1C00 video bits cover every pixel exactly once;
\* nothing a run stores lies outside the buffer.
VideoMapInBounds ==
    /\ \A i \in 0..(VRAM_SIZE - 1) :
           /\ write_vram_in_bounds(i)
           /\ read_vram_in_bounds(i)
           /\ \A b \in 0..7 :
                  /\ 255 - ((8 * i) % 256) - b >= 0
                  /\ write_vram_byte_address(i, b) >= 0
                  /\ write_vram_byte_address(i, b) + 4 <= 256 * 224 * 4
                  /\ get_display_pixel_address(i, b) * 4 >= 0
                  /\ get_display_pixel_address(i, b) * 4 + 4 <= 256 * 224 * 4
                  /\ write_vram_byte_address(i, b) = get_display_pixel_address(i, b) * 4
    /\ Cardinality(VideoPixels) = 8 * VRAM_SIZE
    /\ VideoPixels = 0..(SCREEN_SIZE_PIXELS - 1)

C25_VideoInBounds ==
    /\ VideoMapInBounds
    /\ DOMAIN memory.vram \subseteq 0..(DISPLAY_BUFFER_SIZE - 1)
    /\ ~mem_fault

\* the last video cell written while the first one holds a byte: the pixels at
\* the bottom of the first display column and at the top of the last one
C25_Witness ==
    /\ ProbeInVideo
    /\ ProbeAddr = VRAM_END - 1
    /\ (DISPLAY_WIDTH_PIXELS - 1) * DISPLAY_PIXEL_SIZE \in DOMAIN memory.vram
    /\ (SCREEN_WIDTH_PIXELS - 1) * DISPLAY_WIDTH_PIXELS * DISPLAY_PIXEL_SIZE
           \in DOMAIN memory.vram

\* the interrupts the step under way raises
RaisedNow == SubSeq(interrupts', Len(interrupts) + 1, Len(interrupts'))

\* the schedule marks at or below clock: k * DISPLAY_TIME_NANO_SEC for the
\* end-of-frame mark, FIRST_SCREEN_INT_TIME + k * DISPLAY_TIME_NANO_SEC for the
\* mid-frame mark, k = 0, 1, ...
EndOfFrameMarksDue(clock) == (clock \div DISPLAY_TIME_NANO_SEC) + 1
MidFrameMarksDue(clock) ==
    IF clock < FIRST_SCREEN_INT_TIME THEN 0
    ELSE ((clock - FIRST_SCREEN_INT_TIME) \div DISPLAY_TIME_NANO_SEC) + 1

\* what one CPU step does to the schedule when no step so far reached limit:
\* the end-of-frame mark fires on the step the clock reaches it and only then;
\* the mid-frame mark fires on the step it becomes due unless the end-of-frame
\* mark fires on that step, and then on the next step; a mark that fires moves
\* by one frame period to a value above the clock, the other mark stays
MarksFireOnTime(limit) ==
    (emu_clock' # emu_clock /\ max_step' < limit) =>
        LET eof_due == next_display_time <= emu_clock'
            mid_due == next_screen_int_time <= emu_clock'
            mid_deferred == next_screen_int_time <= emu_clock
        IN /\ Len(RaisedNow) <= 1
           /\ eof_due <=> RaisedNow = <<"RST_3">>
           /\ RaisedNow = <<"RST_2">> => mid_due
           /\ (mid_due /\ ~eof_due) => RaisedNow = <<"RST_2">>
           /\ mid_deferred => RaisedNow = <<"RST_2">>
           /\ RaisedNow = <<"RST_3">> =>
                  /\ next_display_time' = next_display_time + DISPLAY_TIME_NANO_SEC
                  /\ next_display_time' > emu_clock'
                  /\ next_screen_int_time' = next_screen_int_time
           /\ RaisedNow = <<"RST_2">> =>
                  /\ next_screen_int_time' =
                         next_screen_int_time + DISPLAY_TIME_NANO_SEC
                  /\ next_screen_int_time' > emu_clock'
                  /\ next_display_time' = next_display_time
           /\ RaisedNow = <<>> =>
                  UNCHANGED <<next_display_time, next_screen_int_time>>

\* every mark the clock has reached has fired once, but for a mid-frame mark
\* deferred by the step just taken
MarksFiredOnce(limit) ==
    (emu_clock > 0 /\ max_step < limit) =>
        /\ Count("RST_3") = EndOfFrameMarksDue(emu_clock)
        /\ Count("RST_2") = MidFrameMarksDue(emu_clock)
                              - (IF next_screen_int_time <= emu_clock THEN 1 ELSE 0)

\* C24 as stated: for CPU steps each shorter than one frame period, every mark
\* that becomes due fires exactly once, the end-of-frame mark on the very step
\* the clock reaches it, the mid-frame mark on the step it becomes due or, when
\* the end-of-frame mark fires on that step, on the next step, and a mark that
\* has fired is above the clock.
C24_Original_BelowFramePeriod ==
    /\ [](MarksFiredOnce(DISPLAY_TIME_NANO_SEC))
    /\ [][MarksFireOnTime(DISPLAY_TIME_NANO_SEC)]_vars

\* half a frame period: two steps in a row stay below one frame period
HALF_FRAME_NANO_SEC == DISPLAY_TIME_NANO_SEC \div 2

\* C24: for CPU steps each shorter than half a frame period, every mark that
\* becomes due fires exactly once, the end-of-frame mark on the very step the
\* clock reaches it, the mid-frame mark on the step it becomes due or, when the
\* end-of-frame mark fires on that step, on the next step, and a mark that has
\* fired is above the clock.
C24_NoInterruptLost ==
    /\ [](MarksFiredOnce(HALF_FRAME_NANO_SEC))
    /\ [][MarksFireOnTime(HALF_FRAME_NANO_SEC)]_vars

\* a mid-frame mark deferred by a step that also reached the end-of-frame mark,
\* in a run of steps of 8 ms at most
C24_Witness ==
    /\ max_step = 8000000
    /\ Len(interrupts) >= 3
    /\ interrupts[Len(interrupts)] = "RST_3"
    /\ next_screen_int_time <= emu_clock
    /\ next_display_time > emu_clock

\* byte a of a display-sized buffer held as its stored cells
CellAt(buf, a) == IF a \in DOMAIN buf THEN buf[a] ELSE 0

\* two display-sized buffers hold the same bytes
SameBuffer(f, g) == \A a \in DOMAIN f \cup DOMAIN g : CellAt(f, a) = CellAt(g, a)

\* C21: in every interleaving of the two threads, the mirror the presentation
\* thread copies on a redraw is the initial all-zero buffer or the display frame
\* as it was at one single publish, never bytes of two publishes, and the frame
\* it has finished copying is that one buffer; the emulation thread is not
\* inside its copy while the presentation thread is inside its own; and the
\* frame takes bytes from the mirror only, never from the memory's video buffer.
C21_NoTornFrame ==
    /\ [](/\ ui_pc \in {"redraw", "redraw_high"} =>
                /\ mirror_lock = "ui"
                /\ emu_pc \notin {"publish", "publish_high"}
                /\ SameBuffer(vram_mirror, published.last)
          /\ ui_pc = "redraw_high" => SameBuffer(published.redrawn, published.last)
          /\ ui_pc # "redraw_high" => SameBuffer(frame, published.redrawn)
          /\ emu_pc # "publish_high" => SameBuffer(vram_mirror, published.last))
    /\ [][frame' # frame =>
              /\ ui_pc \in {"redraw", "redraw_high"}
              /\ UNCHANGED <<memory, vram_mirror>>
              /\ \A a \in DOMAIN frame \cup DOMAIN frame' :
                     CellAt(frame', a) \in {CellAt(frame, a), CellAt(vram_mirror, a)}]_vars

\* the presentation thread holds a finished copy of an earlier publish while the
\* emulation thread is half way through copying a later, different frame
C21_Witness ==
    /\ ui_pc = "events"
    /\ emu_pc = "publish_high"
    /\ ~SameBuffer(frame, <<>>)
    /\ SameBuffer(frame, published.redrawn)
    /\ ~SameBuffer(frame, published.last)
    /\ ~SameBuffer(vram_mirror, frame)

\* the latch bit a key is bound to, and whether the arm of that key is between
\* its load and its store
BitOfKey(k) == BitOf(inputs[key_binding[k].latch], key_binding[k].bit)
InKeyArm(k) == ui_pc = "key" /\ key_local.key = k

\* outside the arm of its key, each controllable bit is 1 exactly when the last
\* event for its key was a press
LastEventWins ==
    \A k \in DOMAIN key_binding :
        InKeyArm(k) \/ (BitOfKey(k) = 1 <=> key_down[k])

\* the latches change only by the store of a key arm, and that store writes the
\* byte the arm loaded with its one bit set or cleared: nothing stored to the
\* latch since the load is lost
OnlyKeyArmsStore ==
    inputs' # inputs =>
        /\ ui_pc = "key" /\ ui_pc' = "events"
        /\ key_local.val = inputs[key_binding[key_local.key].latch]

\* the store of a release arm that follows a press arm of the same key
ReleaseAfterPress ==
    /\ ui_pc = "key" /\ ui_pc' = "events"
    /\ ~key_local.pressed
    /\ key_local.prev_pressed
    /\ key_local.prev_key = key_local.key

\* C26 as stated: in every interleaving of key events with emulation steps no
\* update is lost: each controllable latch bit is 1 exactly when the last event
\* for its key was a press, and a press followed by a release of the same key
\* restores the latch byte to its value before the press.
C26_Original_PressReleaseRestores ==
    /\ []LastEventWins
    /\ [][OnlyKeyArmsStore]_vars
    /\ [][ReleaseAfterPress =>
              inputs'[key_binding[key_local.key].latch] = key_local.prev_val]_vars

\* C26: the same, with the restored byte claimed for a press of a key that was
\* up (its bit clear before the press) followed by a release of the same key.
C26_LastKeyEventWins ==
    /\ []LastEventWins
    /\ [][OnlyKeyArmsStore]_vars
    /\ [][(ReleaseAfterPress
              /\ BitOf(key_local.prev_val, key_binding[key_local.key].bit) = 0) =>
              inputs'[key_binding[key_local.key].latch] = key_local.prev_val]_vars

\* a key pressed and released with another key held down on the same latch, the
\* emulation thread having read the latch while both were down
C26_Witness ==
    /\ ui_pc = "events"
    /\ key_local.key = "c" /\ ~key_local.pressed
    /\ key_local.prev_key = "c" /\ key_local.prev_pressed
    /\ key_down["ArrowRight"]
    /\ BitOf(key_local.prev_val, 0) = 0
    /\ inputs[1] = key_local.prev_val
    /\ last_io.kind = "in" /\ last_io.port = 1
    /\ last_io.input = set_flag(key_local.prev_val, 0, TRUE)

-----------------------------------------------------------------------------
Init == InitShift /\ InitMemory /\ InitEmu /\ InitLoaded

\* main from its first line
InitMain == InitShift /\ InitMemory /\ InitEmu /\ InitLoad

NextShift ==
    \/ \E b \in ShiftBytes : InputData(b)
    \/ \E n \in ShiftAmounts : InputAmount(n)
    \/ Output

SpecShift == Init /\ [][NextShift]_vars

NextMem ==
    \/ \E a \in MemAddrs, v \in MemBytes : WriteByte(a, v)
    \/ \E a \in MemAddrs, val \in MemSlices : WriteBytes(a, val)

SpecMem == Init /\ [][NextMem]_vars

\* the emulation thread alone, for over a second of emulated time
NextTiming ==
    \/ Resumed
    \/ \E ok \in BOOLEAN : EmuStart(ok)
    \/ EmuLoop(TimingFrames)
    \/ \E t \in TimingNanos : EmuStep(t, <<>>, NoIO)
    \/ EmuPublish
    \/ EmuSleep

SpecTiming == Init /\ [][NextTiming]_vars

\* the two threads side by side
NextEmu ==
    \/ Resumed
    \/ \E ok \in BOOLEAN : EmuStart(ok)
    \/ EmuLoop(ThreadFrames)
    \/ \E t \in EmuNanos, w \in StepWrites : EmuStep(t, w, NoIO)
    \/ EmuPublish
    \/ EmuSleep
    \/ RedrawLock
    \/ RedrawCopy
    \/ CloseRequested
    \/ Join

SpecEmu == Init /\ [][NextEmu]_vars

\* the scheduler runs the emulation thread while it can take a step, and join
\* returns once the thread is done
SpecEmuFair == SpecEmu /\ WF_vars(EmuThread(ThreadFrames)) /\ WF_vars(Join)

\* the presentation thread's keyboard events
NextInput ==
    \/ Resumed
    \/ \E key \in Keys : KeyPressed(key)
    \/ \E key \in Keys : KeyReleased(key)

SpecInput == Init /\ [][NextInput]_vars

\* the emulation thread writing the sound ports
NextSound ==
    \/ Resumed
    \/ \E ok \in BOOLEAN : EmuStart(ok)
    \/ EmuLoop(ThreadFrames)
    \/ \E io \in SoundIO \cup {NoIO} : EmuStep(PortNanos, <<>>, io)
    \/ EmuPublish
    \/ EmuSleep

SpecSound == Init /\ [][NextSound]_vars

\* the emulation thread reading the input ports while keys go down and up
NextPorts ==
    \/ Resumed
    \/ \E ok \in BOOLEAN : EmuStart(ok)
    \/ EmuLoop(ThreadFrames)
    \/ \E io \in InputIO : EmuStep(PortNanos, <<>>, io)
    \/ EmuPublish
    \/ EmuSleep
    \/ \E key \in PortKeys : KeyPressed(key)
    \/ \E key \in PortKeys : KeyReleased(key)

SpecPorts == Init /\ [][NextPorts]_vars

\* single video bytes written to a new memory
NextVideo == \E a \in VideoAddrs, v \in VideoBytes : WriteByte(a, v)

SpecVideo == Init /\ [][NextVideo]_vars

\* byte writes and bulk writes with a read after them, inside the Working and
\* the Video region and their mirrors
NextBulk ==
    \/ \E a \in BulkAddrs, v \in MemBytes : WriteByte(a, v)
    \/ \E a \in BulkAddrs, val \in MemSlices : WriteBytesReadBack(a, val)

SpecBulk == Init /\ [][NextBulk]_vars

\* main from load_rom on, then byte writes to the memory it built
NextLoad ==
    \/ \E o \in ReadOutcomes(file_len) : LoadRom(o)
    \/ \E a \in MemAddrs, v \in MemBytes : WriteByte(a, v)

SpecLoad == InitMain /\ [][NextLoad]_vars

\* the two threads with the copies into the mirror and into the frame taken in
\* two halves each
NextFrame ==
    \/ Resumed
    \/ \E ok \in BOOLEAN : EmuStart(ok)
    \/ EmuLoop(ThreadFrames)
    \/ \E t \in EmuNanos, w \in StepWrites : EmuStep(t, w, NoIO)
    \/ EmuPublishLow
    \/ EmuPublishHigh
    \/ EmuSleep
    \/ RedrawLock
    \/ RedrawCopyLow
    \/ RedrawCopyHigh

SpecFrame == Init /\ [][NextFrame]_vars

\* key arms taken as a load and a store, with the emulation thread reading the
\* latches between any two steps
NextKeys ==
    \/ Resumed
    \/ \E ok \in BOOLEAN : EmuStart(ok)
    \/ EmuLoop(ThreadFrames)
    \/ \E io \in LatchIO : EmuStep(PortNanos, <<>>, io)
    \/ EmuPublish
    \/ EmuSleep
    \/ \E key \in PortKeys, pressed \in BOOLEAN : KeyLoad(key, pressed)
    \/ KeyStore

SpecKeys == Init /\ [][NextKeys]_vars

\* the interrupt schedule under steps of up to a frame period
NextSched ==
    \/ Resumed
    \/ \E ok \in BOOLEAN : EmuStart(ok)
    \/ EmuLoop(SchedFrames)
    \/ \E t \in SchedNanos : EmuStep(t, <<>>, NoIO)
    \/ EmuPublish
    \/ EmuSleep

SpecSched == Init /\ [][NextSched]_vars

\* single bytes written and read back
NextByte == \E a \in ByteAddrs, v \in ByteVals : WriteByteReadBack(a, v)

SpecByte == Init /\ [][NextByte]_vars

====
